---- MODULE Spec2Model ----
(***************************************************************************)
(* A model of elfmalloc/src/utils.rs: the mmap facade, the Lazy cell, the  *)
(* TypedArray / OwnedArray containers and TypedArrayIter.                  *)
(*                                                                         *)
(* The module holds several specifications over one set of variables:      *)
(*   SpecLazy  Lazy cells: new, clone, deref, deref_mut, writes            *)
(*   SpecRace  threads that call deref on one Lazy cell                    *)
(*   SpecMmap  mmap::fallible_map, mmap::map, mmap::unmap                  *)
(*   SpecNew   TypedArray::new over the whole range of its inputs          *)
(*   SpecArr   the life of TypedArray / OwnedArray values and iterators    *)
(* Variables a specification does not use keep their initial value.        *)
(*                                                                         *)
(* Machine words are WordBits wide and pages a few bytes long, so that     *)
(* every usize value and every page of the address space is enumerated.    *)
(***************************************************************************)
EXTENDS Integers, Sequences, FiniteSets, TLC

VARIABLES
    cells,       \* Lazy cells: cell id -> [live, params, val]
    initCalls,   \* history: cell id -> number of T::init invocations
    initPanics,  \* history: cell id -> number of T::init invocations that panicked
    accessed,    \* history: cell id -> an accessor call on it has returned
    last,        \* history: the Lazy operation performed by the last step
    sync,        \* how the program shares a Lazy cell among its threads
    lock,        \* the caller-side lock: the thread that holds it, or 0
    threads,     \* threads in deref: thread id -> [pc, calls, done, tmp, ref]
    stores,      \* history: number of assignments to *state made by deref
    pageSize,    \* what mmap::page_size() returns, fixed for the process
    checked,     \* the build panics on arithmetic overflow (debug) or wraps (release)
    pages,       \* the operating system's view: the set of mapped pages
    held,        \* regions a direct caller of mmap::map holds: <<address, size>>
    arrays,      \* TypedArray values: id -> [st, owned, esize, data, len, mapped]
    iters,       \* TypedArrayIter values: id -> [st, inner, cur, out]
    unmapCalls,  \* history: array id -> number of mmap::unmap calls made by destroy
    ev           \* history: the mmap / array operation performed by the last step

raceVars == <<sync, lock, threads, stores>>
lazyVars == <<cells, initCalls, initPanics, accessed, last,
              sync, lock, threads, stores>>
memVars == <<pageSize, checked, pages, held, arrays, iters, unmapCalls, ev>>
vars == <<cells, initCalls, initPanics, accessed, last,
          sync, lock, threads, stores,
          pageSize, checked, pages, held, arrays, iters, unmapCalls, ev>>

----------------------------------------------------------------------------
(* Bounds *)

MaxCells == 2     \* Lazy cells that may exist
MaxValue == 1     \* values written through deref_mut range over 0..MaxValue
MaxPanics == 1    \* panicking T::init attempts per cell
MaxHeld == 1      \* regions a direct caller of mmap::map holds at a time
MaxLen == 2       \* element counts of the arrays that are iterated: 0..MaxLen
MaxIndex == 3     \* indices passed to get: 0..MaxIndex, and the extremes of usize
MaxUnmaps == 2    \* explicit destroy calls per array
MaxDerefs == 2    \* deref calls a thread makes on the shared cell

CellIds == 1..MaxCells
Params == {0, 1}  \* two values of T::Params
Values == 0..MaxValue

----------------------------------------------------------------------------
(* Option<T> *)

None == [some |-> FALSE, v |-> 0]
Some(x) == [some |-> TRUE, v |-> x]

\* Faulty variant: a check that always takes the initialization branch
is_none_always(state) == TRUE

\* Option::is_none
is_none(state) == ~state.some

----------------------------------------------------------------------------
(* Lazy<T> *)

NoCell == [live |-> FALSE, params |-> 0, val |-> None]

NoOp == [op |-> "none", cell |-> 0, src |-> 0, arg |-> 0, outcome |-> "ok",
         result |-> None]

\* LazyInitializable::init: some function of the parameters alone
LazyInit(p) == p + 1

\* Faulty variant: a Lazy::new that builds the value at once
Lazy_new_eager(params) ==
    [live |-> TRUE, params |-> params, val |-> Some(LazyInit(params))]

\* Lazy::new: params stored, no value
Lazy_new(params) == [live |-> TRUE, params |-> params, val |-> None]

\* Faulty variant: a derived Clone, which copies the value too
Lazy_clone_derived(self) == self

\* Clone for Lazy: params cloned, no value
Lazy_clone(self) == [live |-> TRUE, params |-> self.params, val |-> None]

\* Faulty variant: a force that stores a value even when T::init panicked
Lazy_force_poisoning(self, initOk) ==
    IF ~self.val.some
    THEN [self EXCEPT !.val = Some(IF initOk THEN LazyInit(self.params) ELSE 0)]
    ELSE self

\* The body shared by deref and deref_mut: the cell after the call. initOk
\* tells whether T::init returns (TRUE) or panics (FALSE) should it be called:
\* a panic unwinds out of T::init before the assignment to *state.
Lazy_force(self, initOk) ==
    IF is_none(self.val)
    THEN IF initOk THEN [self EXCEPT !.val = Some(LazyInit(self.params))]
                   ELSE self
    ELSE self

\* Whether the call invokes T::init
Lazy_calls_init(self) == is_none(self.val)

\* Faulty variant: a deref that builds the value anew on every call
Lazy_deref_reinit(self, initOk) ==
    IF initOk \/ ~is_none(self.val)
    THEN [self EXCEPT !.val = Some(LazyInit(self.params))]
    ELSE self

\* Deref::deref for Lazy
Lazy_deref(self, initOk) == Lazy_force(self, initOk)

\* DerefMut::deref_mut for Lazy
Lazy_deref_mut(self, initOk) == Lazy_force(self, initOk)

LazyNew(c, p) ==
    /\ ~cells[c].live
    /\ cells' = [cells EXCEPT ![c] = Lazy_new(p)]
    /\ last' = [NoOp EXCEPT !.op = "new", !.cell = c, !.arg = p]
    /\ UNCHANGED <<initCalls, initPanics, accessed>>
    /\ UNCHANGED raceVars
    /\ UNCHANGED memVars

LazyClone(src, dst) ==
    /\ cells[src].live
    /\ ~cells[dst].live
    /\ cells' = [cells EXCEPT ![dst] = Lazy_clone(cells[src])]
    /\ last' = [NoOp EXCEPT !.op = "clone", !.cell = dst, !.src = src]
    /\ UNCHANGED <<initCalls, initPanics, accessed>>
    /\ UNCHANGED raceVars
    /\ UNCHANGED memVars

\* An accessor call on cell c; after is the cell the accessor leaves and
\* final the cell once the caller is done with the reference it got.
Access(c, op, arg, initOk, after, final) ==
    LET self == cells[c]
        called == Lazy_calls_init(self)
        returned == ~called \/ initOk
    IN /\ self.live
       /\ called \/ initOk
       /\ ~initOk => initPanics[c] < MaxPanics
       /\ cells' = [cells EXCEPT ![c] = IF returned THEN final ELSE after]
       /\ initCalls' = [initCalls EXCEPT ![c] = @ + (IF called THEN 1 ELSE 0)]
       /\ initPanics' = [initPanics EXCEPT ![c] = @ + (IF returned THEN 0 ELSE 1)]
       /\ accessed' = [accessed EXCEPT ![c] = @ \/ returned]
       /\ last' = [NoOp EXCEPT !.op = op, !.cell = c, !.arg = arg,
                               !.outcome = IF returned THEN "ok" ELSE "panic",
                               !.result = IF returned THEN after.val ELSE None]
       /\ UNCHANGED raceVars
       /\ UNCHANGED memVars

\* &*cell
LazyDeref(c, initOk) ==
    LET after == Lazy_deref(cells[c], initOk)
    IN Access(c, "deref", 0, initOk, after, after)

\* &mut *cell, nothing written
LazyDerefMut(c, initOk) ==
    LET after == Lazy_deref_mut(cells[c], initOk)
    IN Access(c, "deref_mut", 0, initOk, after, after)

\* *cell = v: deref_mut, then a store through the &mut T it returned
LazyWrite(c, initOk, v) ==
    LET after == Lazy_deref_mut(cells[c], initOk)
    IN Access(c, "write", v, initOk, after, [after EXCEPT !.val = Some(v)])

----------------------------------------------------------------------------
(* Lazy<T> reached from several threads: deref statement by statement *)

ThreadIds == {1, 2}
Shared == 1            \* the cell the threads reach
Owner == 1             \* the one thread that uses a confined cell

\* "confined": one thread alone uses the cell. "locked": each thread makes
\* its accesses under a lock of the caller's until one of them has returned.
\* "none": the threads call deref with no synchronization.
SyncModes == {"confined", "locked", "none"}

\* pc: "idle" (outside deref), "test" (before the is_none test), "init" (in
\* the branch, before T::init), "store" (T::init has returned, before the
\* assignment to *state), "ret" (before state.as_ref().unwrap()).
\* done: a deref call of the thread has returned. tmp: what T::init returned.
\* ref: which assignment stored the value the thread's reference points to
\* (0: the thread holds no reference).
IdleThread == [pc |-> "idle", calls |-> 0, done |-> FALSE, tmp |-> None, ref |-> 0]

\* Faulty variant: a deref that takes the initialization branch every time
deref_branch_always(state) == "init"

\* if unlikely(state.is_none()) { ... }: where deref goes after the test
deref_branch(state) == IF is_none(state) THEN "init" ELSE "ret"

\* The thread makes this call under the caller's lock
Wrapped(t) == sync = "locked" /\ ~threads[t].done

\* The thread enters deref: let state = &mut *self.val.get()
DerefCall(t) ==
    /\ threads[t].pc = "idle"
    /\ threads[t].calls < MaxDerefs
    /\ sync = "confined" => t = Owner
    /\ Wrapped(t) => lock = 0
    /\ lock' = IF Wrapped(t) THEN t ELSE lock
    /\ threads' = [threads EXCEPT ![t].pc = "test", ![t].calls = @ + 1]
    /\ UNCHANGED <<cells, initCalls, initPanics, accessed, last, sync, stores>>
    /\ UNCHANGED memVars

\* The thread tests state.is_none()
DerefTest(t) ==
    /\ threads[t].pc = "test"
    /\ threads' = [threads EXCEPT ![t].pc = deref_branch(cells[Shared].val)]
    /\ UNCHANGED <<cells, initCalls, initPanics, accessed, last,
                   sync, lock, stores>>
    /\ UNCHANGED memVars

\* The thread runs T::init(&self.params), which returns (initOk) or panics:
\* the panic unwinds out of deref and releases the caller's lock
DerefInit(t, initOk) ==
    /\ threads[t].pc = "init"
    /\ ~initOk => initPanics[Shared] < MaxPanics
    /\ initCalls' = [initCalls EXCEPT ![Shared] = @ + 1]
    /\ initPanics' = [initPanics EXCEPT ![Shared] = @ + (IF initOk THEN 0 ELSE 1)]
    /\ threads' = [threads EXCEPT
                     ![t].pc = IF initOk THEN "store" ELSE "idle",
                     ![t].tmp = IF initOk THEN Some(LazyInit(cells[Shared].params))
                                          ELSE None]
    /\ lock' = IF ~initOk /\ lock = t THEN 0 ELSE lock
    /\ last' = IF initOk THEN last
               ELSE [NoOp EXCEPT !.op = "deref", !.cell = Shared, !.src = t,
                                 !.outcome = "panic"]
    /\ UNCHANGED <<cells, accessed, sync, stores>>
    /\ UNCHANGED memVars

\* The thread assigns: *state = Some(...), over whatever *state holds
DerefStore(t) ==
    /\ threads[t].pc = "store"
    /\ cells' = [cells EXCEPT ![Shared].val = threads[t].tmp]
    /\ stores' = stores + 1
    /\ threads' = [threads EXCEPT ![t].pc = "ret", ![t].tmp = None]
    /\ UNCHANGED <<initCalls, initPanics, accessed, last, sync, lock>>
    /\ UNCHANGED memVars

\* The thread returns state.as_ref().unwrap(), a reference to what *state
\* holds now, and releases the caller's lock
DerefReturn(t) ==
    /\ threads[t].pc = "ret"
    /\ threads' = [threads EXCEPT ![t].pc = "idle", ![t].done = TRUE,
                                  ![t].ref = stores]
    /\ accessed' = [accessed EXCEPT ![Shared] = TRUE]
    /\ lock' = IF lock = t THEN 0 ELSE lock
    /\ last' = [NoOp EXCEPT !.op = "deref", !.cell = Shared, !.src = t,
                            !.result = cells[Shared].val]
    /\ UNCHANGED <<cells, initCalls, initPanics, sync, stores>>
    /\ UNCHANGED memVars

----------------------------------------------------------------------------
(* usize arithmetic *)

WordBits == 6                 \* width of usize and of a pointer
WordMod == 2 ^ WordBits
UsizeMax == WordMod - 1
Usize == 0..UsizeMax

\* Page sizes a system may have: an address space of 16, 8 or 4 pages
PageSizes == {WordMod \div 16, WordMod \div 8, WordMod \div 4}

\* a * b in usize: the wrapped product, and whether it overflowed
usize_mul(a, b) == [v |-> (a * b) % WordMod, overflow |-> a * b > UsizeMax]

\* cmp::min
min(a, b) == IF a <= b THEN a ELSE b

\* n as isize: the two's complement reading of a usize
as_isize(n) == IF n >= WordMod \div 2 THEN n - WordMod ELSE n

\* <*mut T>::offset(count): the address count elements of esize bytes from p,
\* as the machine computes it
ptr_offset(p, count, esize) == (p + count * esize) % WordMod

----------------------------------------------------------------------------
(* mod mmap *)

NumPages(ps) == WordMod \div ps

\* The pages that the n bytes at page-aligned address p lie in
PagesOf(p, n, ps) ==
    {q \in 0..(NumPages(ps) - 1) : p <= q * ps /\ q * ps < p + n}

\* Layout::from_size_align: an error when align is no power of two or when
\* size rounded up to align overflows usize
from_size_align(size, align) ==
    [ok |-> /\ \E k \in 0..WordBits : align = 2 ^ k
            /\ size <= UsizeMax - (align - 1),
     size |-> size, align |-> align]

\* mmap::layout_for_size before its unwrap()
layout_for_size(size, ps) == from_size_align(size, ps)

\* MapAlloc::alloc: what the mapper may answer for a layout, given the pages
\* mapped so far. It may always fail; it may return any page-aligned non-null
\* address at which enough whole pages are free. A layout of size 0 is outside
\* the allocator contract: it fails or returns an address with nothing mapped.
MapAlloc_alloc(layout, ps, mapped) ==
    LET n == (layout.size + ps - 1) \div ps
    IN {None} \cup
       {Some(b * ps) : b \in {c \in 1..(NumPages(ps) - 1) :
                                /\ c + n <= NumPages(ps)
                                /\ \A q \in c..(c + n - 1) : q \notin mapped
                                /\ n = 0 => c \notin mapped}}

\* MapAlloc::dealloc: the pages of the range are unmapped, whoever mapped them
MapAlloc_dealloc(p, layout, ps, mapped) == mapped \ PagesOf(p, layout.size, ps)

\* The possible results of mmap::fallible_map(size): "panic" when
\* layout_for_size unwraps an error, else what the mapper answers
\* (outcome "none" or "some" with the address)
mmap_fallible_map(size, ps, mapped) ==
    LET layout == layout_for_size(size, ps)
    IN IF ~layout.ok
       THEN {[outcome |-> "panic", addr |-> 0]}
       ELSE {[outcome |-> IF r.some THEN "some" ELSE "none", addr |-> r.v] :
                r \in MapAlloc_alloc(layout, ps, mapped)}

\* The possible results of mmap::map(size): expect() panics on None
mmap_map(size, ps, mapped) ==
    {[outcome |-> IF r.outcome = "some" THEN "some" ELSE "panic", addr |-> r.addr] :
        r \in mmap_fallible_map(size, ps, mapped)}

\* mmap::unmap(p, size): the pages mapped afterwards
mmap_unmap(p, size, ps, mapped) ==
    MapAlloc_dealloc(p, layout_for_size(size, ps), ps, mapped)

\* The record of an mmap or array operation
NoEv == [op |-> "none", id |-> 0, esize |-> 0, n |-> 0, request |-> -1,
         outcome |-> "ok", value |-> 0]

\* A panic out of mod mmap or TypedArray::new ends the program: no caller
\* modelled here catches it
Running == ev.outcome # "panic"

\* mmap::fallible_map(size) called directly
FallibleMap(size) ==
    /\ Running
    /\ Cardinality(held) < MaxHeld
    /\ \E r \in mmap_fallible_map(size, pageSize, pages) :
        /\ pages' = IF r.outcome = "some"
                    THEN pages \cup PagesOf(r.addr, size, pageSize) ELSE pages
        /\ held' = IF r.outcome = "some" THEN held \cup {<<r.addr, size>>} ELSE held
        /\ ev' = [NoEv EXCEPT !.op = "fallible_map", !.n = size, !.request = size,
                              !.outcome = r.outcome, !.value = r.addr]
        /\ UNCHANGED <<pageSize, checked, arrays, iters, unmapCalls>>
        /\ UNCHANGED lazyVars

\* mmap::map(size) called directly
Map(size) ==
    /\ Running
    /\ Cardinality(held) < MaxHeld
    /\ \E r \in mmap_map(size, pageSize, pages) :
        /\ pages' = IF r.outcome = "some"
                    THEN pages \cup PagesOf(r.addr, size, pageSize) ELSE pages
        /\ held' = IF r.outcome = "some" THEN held \cup {<<r.addr, size>>} ELSE held
        /\ ev' = [NoEv EXCEPT !.op = "map", !.n = size, !.request = size,
                              !.outcome = r.outcome, !.value = r.addr]
        /\ UNCHANGED <<pageSize, checked, arrays, iters, unmapCalls>>
        /\ UNCHANGED lazyVars

\* mmap::unmap(p, size) of a region the caller got from map / fallible_map
Unmap(r) ==
    /\ Running
    /\ r \in held
    /\ pages' = mmap_unmap(r[1], r[2], pageSize, pages)
    /\ held' = held \ {r}
    /\ ev' = [NoEv EXCEPT !.op = "unmap", !.n = r[2], !.request = r[2],
                          !.value = r[1]]
    /\ UNCHANGED <<pageSize, checked, arrays, iters, unmapCalls>>
    /\ UNCHANGED lazyVars

----------------------------------------------------------------------------
(* TypedArray<T>, OwnedArray<T>, TypedArrayIter<T> *)

ArrayIds == {1}        \* one TypedArray / OwnedArray value
IterIds == {1, 2}      \* two TypedArrayIter values alive at a time

\* st: "none" (not created), "live" (the value is in scope), "gone" (its
\* scope has ended). owned: the TypedArray is wrapped in an OwnedArray.
NoArray == [st |-> "none", owned |-> FALSE, esize |-> 0, data |-> 0, len |-> 0,
            mapped |-> 0]

NoIter == [st |-> "none", inner |-> 0, cur |-> 0, out |-> <<>>]

\* Faulty variant: a page count that always adds a page
new_n_pages_plus_one(bytes, page_size) == bytes \div page_size + 1

\* TypedArray::new, the page count: bytes / page_size + cmp::min(1, rem)
new_n_pages(bytes, page_size) ==
    LET rem == bytes % page_size
    IN bytes \div page_size + min(1, rem)

\* TypedArray::new up to the call of mmap::map, for an element type of esize
\* bytes: the region size it asks for, and whether a multiplication overflowed
\* on the way (a panic in a build with overflow checks, a wrapped value
\* otherwise)
new_region_size(esize, size, page_size) ==
    LET bytes == usize_mul(esize, size)
        n_pages == new_n_pages(bytes.v, page_size)
        region_size == usize_mul(n_pages, page_size)
    IN [v |-> region_size.v, overflow |-> bytes.overflow \/ region_size.overflow]

\* TypedArray::new(size): the possible results. outcome "panic" carries the
\* request made of mmap::map, or -1 when the panic came before it.
TypedArray_new(esize, size, ps, ovfChecks, mapped) ==
    LET rs == new_region_size(esize, size, ps)
    IN IF ovfChecks /\ rs.overflow
       THEN {[outcome |-> "panic", request |-> -1, arr |-> NoArray]}
       ELSE {[outcome |-> IF r.outcome = "some" THEN "ok" ELSE "panic",
              request |-> rs.v,
              arr |-> IF r.outcome = "some"
                      THEN [st |-> "live", owned |-> FALSE, esize |-> esize,
                            data |-> r.addr, len |-> size, mapped |-> rs.v]
                      ELSE NoArray] :
                r \in mmap_map(rs.v, ps, mapped)}

\* OwnedArray::new(size): OwnedArray(TypedArray::new(size))
OwnedArray_new(esize, size, ps, ovfChecks, mapped) ==
    {[r EXCEPT !.arr.owned = (r.outcome = "ok")] :
        r \in TypedArray_new(esize, size, ps, ovfChecks, mapped)}

\* Faulty variant: a get that checks the index and answers null out of bounds
TypedArray_get_checked(self, n) ==
    IF n < self.len THEN (self.data + as_isize(n) * self.esize) % WordMod ELSE 0

\* TypedArray::get(n): self.data.offset(n as isize)
TypedArray_get(self, n) == ptr_offset(self.data, as_isize(n), self.esize)

\* TypedArray::len
TypedArray_len(self) == self.len

\* TypedArray::iter
TypedArray_iter(a) == [st |-> "live", inner |-> a, cur |-> 0, out |-> <<>>]

\* Faulty variant: a next that stops one element early
TypedArrayIter_next_short(it, inner) ==
    IF it.cur = inner.len \/ it.cur + 1 = inner.len
    THEN [it |-> it, res |-> None]
    ELSE [it |-> [it EXCEPT !.cur = it.cur + 1,
                            !.out = Append(it.out, (inner.data + it.cur * inner.esize) % WordMod)],
          res |-> Some((inner.data + it.cur * inner.esize) % WordMod)]

\* Faulty variant: a next that advances cur before it tests for the end
TypedArrayIter_next_past(it, inner) ==
    IF it.cur = inner.len
    THEN [it |-> [it EXCEPT !.cur = it.cur + 1], res |-> None]
    ELSE [it |-> [it EXCEPT !.cur = it.cur + 1,
                            !.out = Append(it.out, (inner.data + it.cur * inner.esize) % WordMod)],
          res |-> Some((inner.data + it.cur * inner.esize) % WordMod)]

\* TypedArrayIter::next: the iterator afterwards and the Option returned
TypedArrayIter_next(it, inner) ==
    IF it.cur = inner.len
    THEN [it |-> it, res |-> None]
    ELSE LET res == ptr_offset(inner.data, as_isize(it.cur), inner.esize)
         IN [it |-> [it EXCEPT !.cur = it.cur + 1, !.out = Append(it.out, res)],
             res |-> Some(res)]

\* A new array value in slot a
Create(a, op, esize, size, results) ==
    /\ Running
    /\ arrays[a].st = "none"
    /\ \E r \in results :
        /\ arrays' = [arrays EXCEPT ![a] = r.arr]
        /\ pages' = IF r.outcome = "ok"
                    THEN pages \cup PagesOf(r.arr.data, r.arr.mapped, pageSize)
                    ELSE pages
        /\ ev' = [NoEv EXCEPT !.op = op, !.id = a, !.esize = esize, !.n = size,
                              !.request = r.request, !.outcome = r.outcome,
                              !.value = r.arr.data]
    /\ UNCHANGED <<pageSize, checked, held, iters, unmapCalls>>
    /\ UNCHANGED lazyVars

\* let a = TypedArray::<T>::new(size)
ArrNew(a, esize, size) ==
    Create(a, "new", esize, size,
           TypedArray_new(esize, size, pageSize, checked, pages))

\* let a = OwnedArray::<T>::new(size)
OwnedNew(a, esize, size) ==
    Create(a, "owned_new", esize, size,
           OwnedArray_new(esize, size, pageSize, checked, pages))

\* a.len(), on a TypedArray or through OwnedArray's Deref
ArrLen(a) ==
    /\ Running
    /\ arrays[a].st = "live"
    /\ ev' = [NoEv EXCEPT !.op = "len", !.id = a,
                          !.value = TypedArray_len(arrays[a])]
    /\ UNCHANGED <<pageSize, checked, pages, held, arrays, iters, unmapCalls>>
    /\ UNCHANGED lazyVars

\* a.get(n), on a TypedArray or through OwnedArray's Deref
ArrGet(a, n) ==
    /\ Running
    /\ arrays[a].st = "live"
    /\ ev' = [NoEv EXCEPT !.op = "get", !.id = a, !.n = n,
                          !.value = TypedArray_get(arrays[a], n)]
    /\ UNCHANGED <<pageSize, checked, pages, held, arrays, iters, unmapCalls>>
    /\ UNCHANGED lazyVars

\* let i = a.iter(), on a TypedArray or through OwnedArray's Deref
ArrIter(a, i) ==
    /\ Running
    /\ arrays[a].st = "live"
    /\ iters[i].st = "none"
    /\ iters' = [iters EXCEPT ![i] = TypedArray_iter(a)]
    /\ ev' = [NoEv EXCEPT !.op = "iter", !.id = a, !.n = i]
    /\ UNCHANGED <<pageSize, checked, pages, held, arrays, unmapCalls>>
    /\ UNCHANGED lazyVars

\* i.next()
IterNext(i) ==
    LET r == TypedArrayIter_next(iters[i], arrays[iters[i].inner])
    IN /\ Running
       /\ iters[i].st = "live"
       /\ iters' = [iters EXCEPT ![i] = r.it]
       /\ ev' = [NoEv EXCEPT !.op = "next", !.id = iters[i].inner, !.n = i,
                             !.outcome = IF r.res.some THEN "some" ELSE "none",
                             !.value = r.res.v]
       /\ UNCHANGED <<pageSize, checked, pages, held, arrays, unmapCalls>>
       /\ UNCHANGED lazyVars

\* The iterator goes out of scope
IterEnd(i) ==
    /\ Running
    /\ iters[i].st = "live"
    /\ iters' = [iters EXCEPT ![i] = NoIter]
    /\ ev' = [NoEv EXCEPT !.op = "iter_end", !.id = iters[i].inner, !.n = i]
    /\ UNCHANGED <<pageSize, checked, pages, held, arrays, unmapCalls>>
    /\ UNCHANGED lazyVars

\* Faulty variant: a destroy that unmaps the bytes of the elements
destroy_call_len(self) == [p |-> self.data, size |-> (self.len * self.esize) % WordMod]

\* TypedArray::destroy: the arguments it passes to mmap::unmap
destroy_call(self) == [p |-> self.data, size |-> self.mapped]

\* TypedArray::destroy: mmap::unmap(self.data, self.mapped); the pages
\* mapped afterwards
TypedArray_destroy(self, ps, mapped) ==
    mmap_unmap(destroy_call(self).p, destroy_call(self).size, ps, mapped)

\* unsafe { a.destroy() }, on a TypedArray or through OwnedArray's Deref
ArrDestroy(a) ==
    /\ Running
    /\ arrays[a].st = "live"
    /\ unmapCalls[a] < MaxUnmaps
    /\ pages' = TypedArray_destroy(arrays[a], pageSize, pages)
    /\ unmapCalls' = [unmapCalls EXCEPT ![a] = @ + 1]
    /\ ev' = [NoEv EXCEPT !.op = "destroy", !.id = a,
                          !.request = destroy_call(arrays[a]).size,
                          !.value = destroy_call(arrays[a]).p]
    /\ UNCHANGED <<pageSize, checked, held, arrays, iters>>
    /\ UNCHANGED lazyVars

\* Faulty variant: a TypedArray with a destructor that releases the mapping
drops_mapping_always(self) == TRUE

\* Whether the value's destructor calls destroy: only OwnedArray has a Drop
drops_mapping(self) == self.owned

\* The value's scope ends, by normal exit or by unwinding: for an OwnedArray
\* Drop::drop runs and calls destroy; a TypedArray has no destructor. No
\* iterator borrows the value any more.
ScopeEnd(a, how) ==
    LET dropped == drops_mapping(arrays[a])
    IN /\ Running
       /\ arrays[a].st = "live"
       /\ \A i \in IterIds : ~(iters[i].st = "live" /\ iters[i].inner = a)
       /\ arrays' = [arrays EXCEPT ![a].st = "gone"]
       /\ pages' = IF dropped THEN TypedArray_destroy(arrays[a], pageSize, pages)
                              ELSE pages
       /\ unmapCalls' = [unmapCalls EXCEPT ![a] = @ + (IF dropped THEN 1 ELSE 0)]
       /\ ev' = [NoEv EXCEPT !.op = how, !.id = a,
                             !.request = IF dropped THEN destroy_call(arrays[a]).size
                                                    ELSE -1,
                             !.value = destroy_call(arrays[a]).p]
       /\ UNCHANGED <<pageSize, checked, held, iters>>
       /\ UNCHANGED lazyVars

----------------------------------------------------------------------------
(* Specifications *)

\* Nothing mapped, no array, no iterator
MemEmpty ==
    /\ pages = {}
    /\ held = {}
    /\ arrays = [a \in ArrayIds |-> NoArray]
    /\ iters = [i \in IterIds |-> NoIter]
    /\ unmapCalls = [a \in ArrayIds |-> 0]
    /\ ev = NoEv

MemIdle ==
    /\ pageSize = WordMod \div 4
    /\ checked = FALSE
    /\ MemEmpty

\* No thread is in deref
RaceIdle ==
    /\ lock = 0
    /\ threads = [t \in ThreadIds |-> IdleThread]
    /\ stores = 0

LazyIdle ==
    /\ sync = "confined"
    /\ RaceIdle
    /\ cells = [c \in CellIds |-> NoCell]
    /\ initCalls = [c \in CellIds |-> 0]
    /\ initPanics = [c \in CellIds |-> 0]
    /\ accessed = [c \in CellIds |-> FALSE]
    /\ last = NoOp

InitLazy ==
    /\ LazyIdle
    /\ MemIdle

NextLazy ==
    \/ \E c \in CellIds, p \in Params : LazyNew(c, p)
    \/ \E s \in CellIds, d \in CellIds : LazyClone(s, d)
    \/ \E c \in CellIds, ok \in BOOLEAN : LazyDeref(c, ok)
    \/ \E c \in CellIds, ok \in BOOLEAN : LazyDerefMut(c, ok)
    \/ \E c \in CellIds, ok \in BOOLEAN, v \in Values : LazyWrite(c, ok, v)

SpecLazy == InitLazy /\ [][NextLazy]_vars

\* Threads that reach one Lazy cell, fresh from Lazy::new, and call deref on
\* it, in each way of sharing it
InitRace ==
    /\ sync \in SyncModes
    /\ RaceIdle
    /\ \E p \in Params :
          cells = [c \in CellIds |-> IF c = Shared THEN Lazy_new(p) ELSE NoCell]
    /\ initCalls = [c \in CellIds |-> 0]
    /\ initPanics = [c \in CellIds |-> 0]
    /\ accessed = [c \in CellIds |-> FALSE]
    /\ last = NoOp
    /\ MemIdle

NextRace ==
    \/ \E t \in ThreadIds : DerefCall(t)
    \/ \E t \in ThreadIds : DerefTest(t)
    \/ \E t \in ThreadIds, ok \in BOOLEAN : DerefInit(t, ok)
    \/ \E t \in ThreadIds : DerefStore(t)
    \/ \E t \in ThreadIds : DerefReturn(t)

SpecRace == InitRace /\ [][NextRace]_vars

\* mmap called directly, on any system and with any size
InitMmap ==
    /\ LazyIdle
    /\ pageSize \in PageSizes
    /\ checked = FALSE
    /\ MemEmpty

NextMmap ==
    \/ \E size \in Usize : FallibleMap(size)
    \/ \E size \in Usize : Map(size)
    \/ \E r \in held : Unmap(r)

SpecMmap == InitMmap /\ [][NextMmap]_vars

\* One TypedArray::new, on any system, in either build, with any element
\* size of ElemSizes and any element count
ElemSizes == {0, 1, 3, 8}

InitNew ==
    /\ LazyIdle
    /\ pageSize \in PageSizes
    /\ checked \in BOOLEAN
    /\ MemEmpty

NextNew ==
    \/ \E esize \in ElemSizes, size \in Usize : ArrNew(1, esize, size)
    \/ \E esize \in ElemSizes, size \in Usize : OwnedNew(1, esize, size)

SpecNew == InitNew /\ [][NextNew]_vars

\* Arrays on a system of four pages, in a build that wraps on overflow
ElemBig == WordMod \div 8
ArrElemSizes == {0, 1, ElemBig}
\* Element counts: the small ones, and the least count at which the byte
\* count of the largest element size wraps to a positive number
Lens == (0..MaxLen) \cup {WordMod \div ElemBig + 1}
Indices == (0..MaxIndex) \cup {WordMod \div 2 - 1, WordMod \div 2, UsizeMax}

InitArr ==
    /\ LazyIdle
    /\ MemIdle

NextArr ==
    \/ \E a \in ArrayIds, esize \in ArrElemSizes, size \in Lens : ArrNew(a, esize, size)
    \/ \E a \in ArrayIds, esize \in ArrElemSizes, size \in Lens : OwnedNew(a, esize, size)
    \/ \E a \in ArrayIds : ArrLen(a)
    \/ \E a \in ArrayIds, n \in Indices : ArrGet(a, n)
    \/ \E a \in ArrayIds, i \in IterIds : ArrIter(a, i)
    \/ \E i \in IterIds : IterNext(i)
    \/ \E i \in IterIds : IterEnd(i)
    \/ \E a \in ArrayIds : ArrDestroy(a)
    \/ \E a \in ArrayIds, how \in {"scope_end", "unwind"} : ScopeEnd(a, how)

SpecArr == InitArr /\ [][NextArr]_vars


----------------------------------------------------------------------------
(* Claims about Lazy, checked under SpecLazy *)

Accessors == {"deref", "deref_mut", "write"}

\* The step is an accessor call on cell c (a step that changes nothing is
\* outside every [][A]_vars below)
AccessStep(c) == last'.op \in Accessors /\ last'.cell = c

\* C1 as stated: once an accessor call on a cell has returned, T::init has
\* been invoked exactly once on it in total.
C1_InitInvokedOnceInTotal ==
    \A c \in CellIds : accessed[c] => initCalls[c] = 1

\* C1, amended: for one cell, over any sequence of accessor calls, exactly
\* one invocation of T::init returns, namely during the first accessor call
\* that returns; every other invocation is a panicked attempt made before
\* it (so T::init is invoked exactly once in total when none panics), and no
\* accessor call after the first that returned invokes T::init again.
C1_InitReturnsOnce ==
    /\ [](\A c \in CellIds :
            /\ initCalls[c] - initPanics[c] = (IF accessed[c] THEN 1 ELSE 0)
            /\ (accessed[c] /\ initPanics[c] = 0) => initCalls[c] = 1)
    /\ [][\A c \in CellIds :
            /\ accessed[c] => initCalls'[c] = initCalls[c]
            /\ (AccessStep(c) /\ initCalls[c] = initPanics[c] /\ ~accessed[c])
                  => initCalls'[c] = initCalls[c] + 1]_vars

\* C1 witness: a deref of a cell that was initialized and then written (so at
\* least three accessor calls), with T::init invoked once.
C1_Witness ==
    \E c \in CellIds :
        /\ last.op = "deref" /\ last.cell = c /\ accessed[c]
        /\ cells[c].val.some /\ cells[c].val.v # LazyInit(cells[c].params)
        /\ initCalls[c] = 1

\* C2: new stores params, leaves the value None and does not invoke T::init;
\* the value is None until an accessor call has returned, Some in every state
\* after one has, and no step (deref, deref_mut, write, clone, new of another
\* cell) turns a Some value back into None.
C2_NoneUntilAccessThenSome ==
    /\ [](\A c \in CellIds :
            cells[c].live => (accessed[c] <=> ~is_none(cells[c].val)))
    /\ [][\A c \in CellIds :
            /\ (last'.op = "new" /\ last'.cell = c)
                  => /\ cells'[c].live /\ cells'[c].params = last'.arg
                     /\ cells'[c].val = None
                     /\ initCalls' = initCalls
            /\ cells[c].val.some => cells'[c].val.some]_vars

\* C2 witness: a cell whose value is Some right after it served as the source
\* of a clone, and which was written before.
C2_Witness ==
    \E c \in CellIds :
        /\ last.op = "clone" /\ last.src = c
        /\ accessed[c] /\ cells[c].val.some
        /\ cells[c].val.v # LazyInit(cells[c].params)

\* C3: a clone step yields a cell with the source's params and value None,
\* whatever the source holds, and leaves the source (and the init counts)
\* unchanged; the first access of a cell without a value, a clone included,
\* invokes T::init and yields init of that cell's own params; an accessor call
\* or write on one cell changes no other cell.
C3_CloneStartsUninitialized ==
    [][/\ last'.op = "clone"
            => /\ cells'[last'.cell].live
               /\ cells'[last'.cell].params = cells[last'.src].params
               /\ cells'[last'.cell].val = None
               /\ cells'[last'.src] = cells[last'.src]
               /\ initCalls' = initCalls
       /\ \A c \in CellIds :
            AccessStep(c) =>
               /\ \A d \in CellIds \ {c} :
                      /\ cells'[d] = cells[d]
                      /\ initCalls'[d] = initCalls[d]
               /\ (~cells[c].val.some /\ last'.outcome = "ok")
                     => /\ last'.result = Some(LazyInit(cells[c].params))
                        /\ initCalls'[c] = initCalls[c] + 1]_vars

\* C3 witness: the state right after cloning a source that was initialized
\* and then written: the clone has the same params and no value.
C3_Witness ==
    /\ last.op = "clone"
    /\ cells[last.src].val.some
    /\ cells[last.src].val.v # LazyInit(cells[last.src].params)
    /\ cells[last.cell].params = cells[last.src].params
    /\ ~cells[last.cell].val.some

\* C9: an accessor call in which T::init panics ends in that panic, leaving
\* the cell (value None, params) as it was; an accessor call on a cell with
\* no value invokes T::init, also after failed attempts; an accessor call on
\* a cell with a value does not.
C9_InitFailureNotCached ==
    [][\A c \in CellIds :
         /\ initPanics'[c] # initPanics[c]
               => /\ AccessStep(c) /\ last'.outcome = "panic"
                  /\ cells'[c] = cells[c]
                  /\ ~cells'[c].val.some
         /\ (AccessStep(c) /\ last'.outcome = "panic")
               => initPanics'[c] = initPanics[c] + 1
         /\ (AccessStep(c) /\ ~cells[c].val.some)
               => initCalls'[c] = initCalls[c] + 1
         /\ (AccessStep(c) /\ cells[c].val.some)
               => /\ initCalls'[c] = initCalls[c]
                  /\ last'.outcome = "ok"]_vars

\* C9 witness: a cell whose first T::init panicked and whose second attempt,
\* in the accessor call just made, succeeded.
C9_Witness ==
    \E c \in CellIds :
        /\ last.op \in Accessors /\ last.cell = c /\ last.outcome = "ok"
        /\ initPanics[c] = 1 /\ initCalls[c] = 2
        /\ cells[c].val.some


Reads == {"deref", "deref_mut"}

\* C12: an accessor call that returns yields the value the cell holds, or
\* init(params) when it holds none, and leaves that value in the cell; a
\* write leaves the written value in the cell, whether the cell held a value
\* or the write was its first access; and no step but a write changes a
\* value the cell holds. So reads yield init(params) from the first read to
\* the first write and the last written value from then on, whatever calls
\* come between.
C12_ReadsInitThenLastWrite ==
    [][\A c \in CellIds :
         LET old == cells[c].val
             unwritten == Some(LazyInit(cells[c].params))
         IN /\ (AccessStep(c) /\ last'.op \in Reads /\ last'.outcome = "ok")
                  => /\ last'.result = (IF old.some THEN old ELSE unwritten)
                     /\ cells'[c].val = last'.result
            /\ (AccessStep(c) /\ last'.op = "write" /\ last'.outcome = "ok")
                  => /\ cells'[c].val = Some(last'.arg)
                     /\ last'.result = (IF old.some THEN old ELSE unwritten)
            /\ (old.some /\ ~(AccessStep(c) /\ last'.op = "write"))
                  => cells'[c].val = old
            /\ cells[c].live => cells'[c].params = cells[c].params]_vars

\* C12 witness: a deref that returns a written value other than init(params),
\* on a cell for which T::init has run once.
C12_Witness ==
    \E c \in CellIds :
        /\ last.op = "deref" /\ last.cell = c /\ last.outcome = "ok"
        /\ last.result = cells[c].val
        /\ last.result # Some(LazyInit(cells[c].params))
        /\ initCalls[c] = 1 /\ initPanics[c] = 0

----------------------------------------------------------------------------
(* Claims about Lazy reached from several threads, checked under SpecRace *)

\* T::init has returned more than once for the shared cell
InitRanTwice == initCalls[Shared] - initPanics[Shared] >= 2

\* Two threads are past the is_none test, which both found true, and neither
\* has stored
BothObservedNone ==
    /\ stores = 0
    /\ \A t \in ThreadIds : threads[t].pc \in {"init", "store"}

\* The thread holds a reference to a value that a later assignment to *state
\* has overwritten
HoldsOverwritten(t) == threads[t].ref # 0 /\ threads[t].ref < stores

\* C13: deref takes no lock of its own. A state in which two threads have
\* both found the cell None before either stored, in which T::init has
\* returned twice, in which *state was assigned twice, or in which a thread
\* holds a reference to a value overwritten since, is reached only by threads
\* that share the cell with no synchronization (where it is reached: see the
\* witness); with the cell confined to one thread, or the accesses up to a
\* thread's first returned one made under a lock of the caller's, T::init
\* returns at most once and *state is assigned at most once.
C13_RaceOnlyWhenUnsynchronized ==
    /\ (\/ BothObservedNone
        \/ InitRanTwice
        \/ stores >= 2
        \/ \E t \in ThreadIds : HoldsOverwritten(t)) => sync = "none"
    /\ sync = "locked" =>
          /\ lock \in ThreadIds => threads[lock].pc # "idle"
          /\ \A t \in ThreadIds :
                (threads[t].pc \in {"init", "store"}) => lock = t
    /\ sync = "confined" =>
          \A t \in ThreadIds \ {Owner} : threads[t] = IdleThread

\* C13 witness: two unsynchronized threads, no panic: T::init has run twice
\* (so each thread found the cell None before the other stored), *state was
\* assigned twice, and one thread holds the reference it got between the two
\* assignments, to the value that the second assignment overwrote.
C13_Witness ==
    /\ sync = "none"
    /\ initCalls[Shared] = 2 /\ initPanics[Shared] = 0
    /\ stores = 2
    /\ \E t \in ThreadIds : threads[t].ref = 1 /\ HoldsOverwritten(t)

----------------------------------------------------------------------------
(* Claims about TypedArray::new, checked under SpecNew *)

\* The smallest multiple of ps that is >= b, as a number (not computed the
\* way the code computes it)
LeastMultiple(b, ps) ==
    LET multiples == {k * ps : k \in 0..(b + 1)}
    IN CHOOSE m \in multiples :
          m >= b /\ \A m2 \in multiples : m2 >= b => m <= m2

NewOps == {"new", "owned_new"}

\* The last step was a new of a positive count of elements of positive size
\* whose product fits in usize
NewOfFittingProduct ==
    /\ ev.op \in NewOps
    /\ ev.n > 0 /\ ev.esize > 0
    /\ ev.esize * ev.n <= UsizeMax

\* What the claim says of such a step: the size asked of mmap::map, and the
\* mapped field of the array returned, is the least page multiple
RequestsLeastMultiple ==
    LET want == LeastMultiple(ev.esize * ev.n, pageSize)
    IN /\ ev.request = want
       /\ ev.outcome = "ok" => /\ arrays[ev.id].mapped = want
                               /\ arrays[ev.id].len = ev.n
                               /\ arrays[ev.id].data = ev.value

C11_EmptyArrayMapsNonZeroRegion ==
    (ev.op \in NewOps /\ ev.esize * ev.n = 0)
        => /\ ev.request > 0
           /\ ev.request % pageSize = 0
           /\ ev.outcome = "ok" => /\ arrays[ev.id].data # 0
                                   /\ arrays[ev.id].len = ev.n
                                   /\ arrays[ev.id].mapped = ev.request

\* C14 as stated: for every element count and element size, also when their
\* product or its round-up to whole pages exceeds the machine word, an array
\* that new returns has a mapped that is a multiple of page_size and at least
\* element_count * size_of(T), the product taken as a number: its len covers
\* no more bytes than were mapped.
C14_MappedCoversLen ==
    \A a \in ArrayIds :
        (ev.op \in NewOps /\ ev.id = a /\ ev.outcome = "ok")
            => /\ arrays[a].mapped % pageSize = 0
               /\ arrays[a].mapped >= ev.n * ev.esize
               /\ arrays[a].len * arrays[a].esize <= arrays[a].mapped

----------------------------------------------------------------------------
(* Claims about mod mmap, checked under SpecMmap *)

\* No mapping can satisfy the request: it is larger than the address space
\* less the null page
Unsatisfiable(size) == size > WordMod - pageSize

\* C10 as stated: for every size, fallible_map returns None or Some(address),
\* never a panic, Some exactly when the pages were mapped; map of a request
\* that cannot be satisfied does not return.
C10_FallibleMapNeverPanics ==
    /\ ev.op = "fallible_map"
          => /\ ev.outcome \in {"some", "none"}
             /\ Unsatisfiable(ev.n) => ev.outcome = "none"
             /\ ev.outcome = "some" => <<ev.value, ev.n>> \in held
    /\ (ev.op = "map" /\ Unsatisfiable(ev.n)) => ev.outcome = "panic"

----------------------------------------------------------------------------
(* Claims about TypedArray, OwnedArray and TypedArrayIter, checked under
   SpecArr *)

\* The array's whole region is mapped
Mapped(a) == PagesOf(arrays[a].data, arrays[a].mapped, pageSize) \subseteq pages

\* C5 as stated: once the scope of an OwnedArray has ended, by normal exit or
\* by unwinding, and whatever was called on it before, destroy (mmap::unmap)
\* has been called on its region exactly once.
C5_OwnedReleasedExactlyOnce ==
    \A a \in ArrayIds :
        (arrays[a].owned /\ arrays[a].st = "gone") => unmapCalls[a] = 1

\* C6: a TypedArray's mapping is released by no step other than a destroy
\* call: mmap::unmap is called only in a destroy (called by the user, or by
\* the Drop of the OwnedArray that wraps the array), and the region of a
\* TypedArray that was never destroyed is mapped in every state, also after
\* the value has gone out of scope.
C6_ReleasedOnlyByDestroy ==
    /\ [](\A a \in ArrayIds :
            (arrays[a].st # "none" /\ unmapCalls[a] = 0) => Mapped(a))
    /\ [][\A a \in ArrayIds :
            /\ unmapCalls'[a] # unmapCalls[a]
                  => /\ ev'.id = a
                     /\ \/ ev'.op = "destroy"
                        \/ ev'.op \in {"scope_end", "unwind"} /\ arrays[a].owned
            /\ (arrays[a].st # "none" /\ ~arrays[a].owned
                  /\ Mapped(a) /\ ~Mapped(a)')
                  => ev'.op = "destroy" /\ ev'.id = a
            /\ (ev'.op \in {"scope_end", "unwind"} /\ ev'.id = a /\ ~arrays[a].owned)
                  => pages' = pages /\ unmapCalls' = unmapCalls]_vars

\* C6 witness: a TypedArray with a region of at least a page whose scope has
\* just ended and whose region is still mapped.
C6_Witness ==
    \E a \in ArrayIds :
        /\ ev.op \in {"scope_end", "unwind"} /\ ev.id = a
        /\ arrays[a].st = "gone" /\ ~arrays[a].owned
        /\ arrays[a].mapped > 0 /\ unmapCalls[a] = 0
        /\ Mapped(a)

\* The len elements of the array lie within its mapping. new guarantees it
\* unless its size arithmetic wrapped.
InRegion(self) == self.len * self.esize <= self.mapped

\* What every iterator has yielded so far, but for the values: as many
\* addresses as next calls returned Some, never more than len, all len of
\* them once next has returned None; and two iterators of the same array
\* that are equally far have yielded the same sequence
IterCounts ==
    \A i \in IterIds :
        iters[i].st = "live" =>
            LET it == iters[i]
                a == arrays[it.inner]
            IN /\ Len(it.out) = it.cur /\ it.cur <= a.len
               /\ (ev.op = "next" /\ ev.n = i /\ ev.outcome = "none")
                     => Len(it.out) = a.len
               /\ (ev.op = "next" /\ ev.n = i /\ ev.outcome = "some")
                     => /\ it.cur > 0
                        /\ ev.value = it.out[it.cur]
               /\ \A j \in IterIds :
                     (iters[j].st = "live" /\ iters[j].inner = it.inner
                        /\ iters[j].cur = it.cur)
                        => iters[j].out = it.out

\* C7 as stated: for every TypedArray, element size 0 included, an iterator
\* run to exhaustion has yielded exactly len addresses, the i-th equal to
\* data + i * size_of(T), strictly increasing, and two iterators of the same
\* array yield the same sequence.
C7_IterStrictlyIncreasing ==
    /\ IterCounts
    /\ \A i \in IterIds :
          iters[i].st = "live" =>
              LET it == iters[i]
                  a == arrays[it.inner]
              IN /\ \A k \in 1..Len(it.out) :
                       it.out[k] = a.data + (k - 1) * a.esize
                 /\ \A k \in 1..(Len(it.out) - 1) : it.out[k] < it.out[k + 1]

\* C7, amended: for every TypedArray, an iterator run to exhaustion has
\* yielded exactly len addresses, the i-th equal to data + i * size_of(T) in
\* pointer arithmetic (exactly that number when the elements lie within the
\* mapping), and two iterators of the same array yield the same sequence; the
\* addresses are strictly increasing when size_of(T) > 0 and the elements lie
\* within the mapping, and all equal to data when size_of(T) = 0.
C7_IterYieldsElementAddresses ==
    /\ IterCounts
    /\ \A i \in IterIds :
          iters[i].st = "live" =>
              LET it == iters[i]
                  a == arrays[it.inner]
              IN /\ \A k \in 1..Len(it.out) :
                       /\ it.out[k] = (a.data + (k - 1) * a.esize) % WordMod
                       /\ InRegion(a) => it.out[k] = a.data + (k - 1) * a.esize
                       /\ a.esize = 0 => it.out[k] = a.data
                 /\ (a.esize > 0 /\ InRegion(a))
                       => \A k \in 1..(Len(it.out) - 1) : it.out[k] < it.out[k + 1]

\* C7 witness: two iterators of one array of two elements of positive size,
\* both run to exhaustion, the second just now.
C7_Witness ==
    \E i \in IterIds, j \in IterIds :
        /\ i # j
        /\ iters[i].st = "live" /\ iters[j].st = "live"
        /\ iters[i].inner = iters[j].inner
        /\ arrays[iters[i].inner].len = 2 /\ arrays[iters[i].inner].esize > 0
        /\ iters[i].cur = 2 /\ iters[j].cur = 2
        /\ ev.op = "next" /\ ev.n = j /\ ev.outcome = "none"

\* C8: get(n) returns data + n * size_of(T) for every n, in pointer (usize)
\* arithmetic, whether or not n < len, and never fails; get(0) is data; len()
\* is the element count given to new; for i < len, get(i) is the i-th
\* address an iterator yields.
C8_GetIsUncheckedOffset ==
    \A a \in ArrayIds :
        LET self == arrays[a]
        IN /\ (ev.op = "get" /\ ev.id = a)
                 => /\ ev.outcome = "ok"
                    /\ ev.value = (self.data + ev.n * self.esize) % WordMod
                    /\ self.data + ev.n * self.esize <= UsizeMax
                          => ev.value = self.data + ev.n * self.esize
                    /\ ev.n = 0 => ev.value = self.data
           /\ (ev.op = "len" /\ ev.id = a) => ev.value = self.len
           /\ (ev.op \in NewOps /\ ev.id = a /\ ev.outcome = "ok")
                 => TypedArray_len(self) = ev.n
           /\ \A i \in IterIds :
                 (iters[i].st = "live" /\ iters[i].inner = a)
                    => \A k \in 1..Len(iters[i].out) :
                          /\ k - 1 < self.len
                          /\ TypedArray_get(self, k - 1) = iters[i].out[k]

\* C8 witness: a get with an index past the end of an array of elements of
\* positive size, answered with the address that far past data.
C8_Witness ==
    /\ ev.op = "get" /\ ev.outcome = "ok"
    /\ arrays[ev.id].len > 0 /\ arrays[ev.id].esize > 0
    /\ ev.n >= arrays[ev.id].len /\ ev.n <= MaxIndex
    /\ ev.value = arrays[ev.id].data + ev.n * arrays[ev.id].esize

\* The fields new gave the array
Fields(self) == <<self.data, self.len, self.mapped, self.esize>>

\* None of the array's region is mapped
Released(a) == PagesOf(arrays[a].data, arrays[a].mapped, pageSize) \cap pages = {}

\* C15: new records as data and mapped the address mmap::map returned and the
\* size new passed to it, and no later step (len, get, iter, next, destroy,
\* the end of the scope) changes data, len or mapped; destroy passes exactly
\* that address and that size to mmap::unmap, a size mmap::unmap accepts, and
\* changes nothing of the array. So at the first destroy, whatever len, get,
\* iter and next calls came before, the region is mapped as map left it and
\* the unmap releases exactly it; a second destroy makes the same call on a
\* region already released.
C15_DestroyUnmapsWhatNewMapped ==
    [][\A a \in ArrayIds :
         /\ (ev'.op \in NewOps /\ ev'.id = a /\ ev'.outcome = "ok")
               => /\ arrays'[a].data = ev'.value
                  /\ arrays'[a].mapped = ev'.request
                  /\ arrays'[a].len = ev'.n
                  /\ Mapped(a)'
         /\ arrays[a].st # "none" => Fields(arrays'[a]) = Fields(arrays[a])
         /\ (ev'.op = "destroy" /\ ev'.id = a)
               => /\ ev'.value = arrays[a].data
                  /\ ev'.request = arrays[a].mapped
                  /\ layout_for_size(ev'.request, pageSize).ok
                  /\ arrays' = arrays
                  /\ pages' = pages \ PagesOf(arrays[a].data, arrays[a].mapped, pageSize)
                  /\ unmapCalls'[a] = unmapCalls[a] + 1
                  /\ unmapCalls[a] = 0 => Mapped(a)
                  /\ unmapCalls[a] > 0 => Released(a) /\ pages' = pages]_vars

\* C15 witness: the first destroy of an array with a mapping of at least a
\* page, made after len or get calls and with an iterator that has yielded
\* an element: the region is released.
C15_Witness ==
    \E a \in ArrayIds, i \in IterIds :
        /\ ev.op = "destroy" /\ ev.id = a
        /\ unmapCalls[a] = 1
        /\ arrays[a].mapped >= pageSize
        /\ ev.value = arrays[a].data /\ ev.request = arrays[a].mapped
        /\ iters[i].st = "live" /\ iters[i].inner = a /\ iters[i].cur > 0
        /\ Released(a)

\* The step is a next call on iterator i
NextStep(i) == ev'.op = "next" /\ ev'.n = i

\* C16: every iterator has 0 <= cur <= inner.len, a cur that fits in usize,
\* in every state. A next call returns None exactly when cur = len, and then
\* leaves the iterator as it was; otherwise it returns Some and advances cur
\* by exactly one. Nothing but its own next calls changes an iterator's cur,
\* so an iterator that has returned None returns None ever after; a next call
\* changes neither the array nor the mapping nor any other iterator.
C16_IterCursorBounded ==
    /\ [](\A i \in IterIds :
            iters[i].st = "live"
               => /\ 0 <= iters[i].cur
                  /\ iters[i].cur <= arrays[iters[i].inner].len
                  /\ iters[i].cur <= UsizeMax)
    /\ [][\A i \in IterIds :
            LET it == iters[i]
                len == arrays[it.inner].len
            IN /\ NextStep(i)
                     => /\ it.st = "live" /\ iters'[i].st = "live"
                        /\ iters'[i].inner = it.inner
                        /\ (ev'.outcome = "none") <=> (it.cur = len)
                        /\ (ev'.outcome = "some") <=> (it.cur < len)
                        /\ ev'.outcome = "none" => iters'[i] = it
                        /\ ev'.outcome = "some" => iters'[i].cur = it.cur + 1
                        /\ arrays' = arrays /\ pages' = pages
                        /\ unmapCalls' = unmapCalls
                        /\ \A j \in IterIds \ {i} : iters'[j] = iters[j]
               /\ (it.st = "live" /\ iters'[i].st = "live" /\ ~NextStep(i))
                     => iters'[i] = it
               /\ (it.st = "live" /\ iters'[i].st = "live" /\ it.cur = len)
                     => iters'[i].cur = len]_vars

\* C16 witness: two iterators over one array of two elements; one has
\* yielded both and has just returned None (cur = len), the other has
\* yielded one element and stays where it was.
C16_Witness ==
    \E i \in IterIds, j \in IterIds :
        /\ iters[i].st = "live" /\ iters[j].st = "live"
        /\ iters[i].inner = iters[j].inner
        /\ arrays[iters[i].inner].len = 2
        /\ ev.op = "next" /\ ev.n = i /\ ev.outcome = "none"
        /\ iters[i].cur = 2 /\ iters[j].cur = 1

====
